---- MODULE Spec2Model ----
(***************************************************************************)
(* SQL Server -> BigQuery change-tracking replicator.                      *)
(*                                                                         *)
(* The model follows src/src/connector/replicator.py step by step: one     *)
(* action per blocking I/O call of Replicator.replicate_table, so that a   *)
(* process kill and a concurrent source write can fall between any two     *)
(* calls.  The source database, the warehouse and the state file are the   *)
(* durable state; everything else is lost when the process stops.          *)
(***************************************************************************)
EXTENDS Integers, Sequences, FiniteSets, TLC

\* ---------------------------------------------------------------- bounds
MaxVersion == 3      \* number of source writes recorded by the change feed
MaxKey     == 2      \* primary-key values 1..MaxKey
MaxFaults  == 1      \* I/O failures and restores injected over one behaviour
MaxDup     == 2      \* rows per key the target table is followed up to
BatchSize  == 1      \* BATCH_SIZE, scaled down (default 1000)
MaxColumns == 5      \* columns of the table whose catalog is read
MaxValue   == 2      \* values 1..MaxValue of a key column in a scanned table
MaxBatch   == 3      \* batch sizes 1..MaxBatch of a scan

Keys == 1..MaxKey

\* ------------------------------------------------------ configuration
\* the tables of the source database: "orders" and "audit" have primary key
\* id, "notes" has none
Tables == {"orders", "notes", "audit"}

\* the tables listed in sys.change_tracking_tables: "audit" is not
ChangeTracked == {"orders", "notes"}

\* result of get_primary_key_columns on the source catalog
PrimaryKey == [t \in Tables |-> IF t = "notes" THEN <<>> ELSE <<"id">>]

\* whether the name io is bound in module big_query_connector: the module
\* imports os, sys, logging, typing, pandas, dotenv and google.cloud only;
\* main.py imports io into its own namespace.
IoNameBound == FALSE

NoEntry == -1        \* table name absent from the state document

NoExit == -1         \* main has not returned

\* Values of the environment.  A string is a sequence of symbols: a table
\* name is one symbol, "," and " " are the comma and the blank.  An unset
\* variable reads as the empty string: os.getenv gives None, which is as
\* falsy as '', or the default ''.
Envs ==
    [SQL_SERVER : {"", "srv"}, SQL_DATABASE : {"", "db"},
     BQ_PROJECT_ID : {"", "proj"}, BQ_DATASET : {"", "ds"},
     TABLES_TO_REPLICATE : {<<>>, <<"orders", ",", " ", ",", "notes">>,
                            <<"audit", ",", "orders">>}]

\* str.split(sep): n separators give n + 1 pieces, the empty string one
\* empty piece
RECURSIVE split(_, _)
split(s, sep) ==
    IF \E i \in 1..Len(s) : s[i] = sep
    THEN LET i == CHOOSE j \in 1..Len(s) :
                      s[j] = sep /\ \A l \in 1..(j - 1) : s[l] # sep
         IN  <<SubSeq(s, 1, i - 1)>> \o split(SubSeq(s, i + 1, Len(s)), sep)
    ELSE <<s>>

\* str.strip(): blanks removed at both ends; the result as a table name
\* ("" for the empty string)
RECURSIVE strip(_)
strip(s) ==
    IF s = <<>> THEN ""
    ELSE IF s[1] = " " THEN strip(SubSeq(s, 2, Len(s)))
    ELSE IF s[Len(s)] = " " THEN strip(SubSeq(s, 1, Len(s) - 1))
    ELSE s[1]

\* ------------------------------------------------------------ helpers
Min(a, b) == IF a < b THEN a ELSE b

\* the n smallest elements of a set of integers, as a set
RECURSIVE Smallest(_, _)
Smallest(S, n) ==
    IF n = 0 \/ S = {} THEN {}
    ELSE LET m == CHOOSE x \in S : \A y \in S : x <= y
         IN  {m} \cup Smallest(S \ {m}, n - 1)

MaxOf(S) == CHOOSE x \in S : \A y \in S : y <= x

\* ------------------------------------------------------------- source
\* The change feed: entry i of srcLog is the write that produced version i.
\* CHANGE_TRACKING_CURRENT_VERSION() is database-wide.
SrcVersionOf(log) == Len(log)

\* last write of key k of table t among log entries (lo, hi], 0 when none
LastWrite(log, t, k, lo, hi) ==
    LET idx == {i \in (lo + 1)..Min(hi, Len(log)) : log[i].tbl = t /\ log[i].key = k}
    IN  IF idx = {} THEN 0 ELSE MaxOf(idx)

\* rows of table t (SELECT * FROM t): keys whose last write is not a delete
SrcRows(log, t) ==
    {k \in Keys : LET i == LastWrite(log, t, k, 0, Len(log))
                  IN  i > 0 /\ log[i].op # "D"}

\* CHANGETABLE(CHANGES t, since): one row per key changed after `since`,
\* with the net operation; the upsert query joins it with the table itself.
ChangedKeys(log, t, since) ==
    {k \in Keys : LastWrite(log, t, k, since, Len(log)) > 0}

UpsertQuery(log, t, since) ==
    {k \in ChangedKeys(log, t, since) : k \in SrcRows(log, t)}

DeleteQuery(log, t, since) ==
    {k \in ChangedKeys(log, t, since) : k \notin SrcRows(log, t)}

\* ----------------------------------------------------------------- Pager
\* The scans return the batches of their queries, in the order of the
\* queries; all_data is what the batches hold together.
\*
\* _get_all_data_with_pk: TOP batch_size rows with pk > last_pk_value in key
\* order; stops on an empty batch (also what a failed query returns) or on a
\* batch shorter than batch_size.  failAt = n makes the n-th batch query fail.
RECURSIVE _get_all_data_with_pk(_, _, _, _, _)
_get_all_data_with_pk(rows, batch_size, last_pk_value, n, failAt) ==
    LET batch == IF n = failAt THEN {}
                 ELSE Smallest({k \in rows : k > last_pk_value}, batch_size)
    IN  IF batch = {} THEN <<batch>>
        ELSE IF Cardinality(batch) < batch_size THEN <<batch>>
        ELSE <<batch>> \o _get_all_data_with_pk(rows, batch_size, MaxOf(batch), n + 1, failAt)

\* _get_all_data_with_offset: one query per offset in range(0, total_rows,
\* batch_size); stops on an empty batch.
RECURSIVE _get_all_data_with_offset(_, _, _, _, _, _)
_get_all_data_with_offset(rows, batch_size, total_rows, offset, n, failAt) ==
    IF offset >= total_rows THEN <<>>
    ELSE LET batch == IF n = failAt THEN {}
                      ELSE Smallest(rows, offset + batch_size) \ Smallest(rows, offset)
         IN  IF batch = {} THEN <<batch>>
             ELSE <<batch>> \o _get_all_data_with_offset(rows, batch_size, total_rows,
                                                         offset + batch_size, n + 1, failAt)

\* the batch queries of get_all_data: the COUNT(*) query is query 0; a failed
\* count reads as 0 rows and no batch query is issued, as for an empty table.
ScanBatches(rows, pk_columns, batch_size, failAt) ==
    LET total_rows == IF failAt = 0 THEN 0 ELSE Cardinality(rows)
    IN  IF total_rows = 0 THEN <<>>
        ELSE IF pk_columns = <<>>
             THEN _get_all_data_with_offset(rows, batch_size, total_rows, 0, 1, failAt)
             ELSE _get_all_data_with_pk(rows, batch_size, 0, 1, failAt)

\* get_all_data: the frame of all rows fetched
get_all_data(rows, pk_columns, batch_size, failAt) ==
    LET batches == ScanBatches(rows, pk_columns, batch_size, failAt)
    IN  UNION {batches[i] : i \in DOMAIN batches}

\* number of batch queries a scan without failure issues, the COUNT(*) not
\* counted: the keyed scan stops after the first batch shorter than
\* batch_size, the offset scan issues one query per offset
BatchQueries(rows, pk_columns, batch_size) ==
    LET n == Cardinality(rows)
    IN  IF n = 0 THEN 0
        ELSE IF pk_columns = <<>> THEN (n + batch_size - 1) \div batch_size
        ELSE (n \div batch_size) + 1

\* ---------------------------------------------------------------- Loader
\* a bag of rows per key, followed up to MaxDup rows
EmptyTable == [k \in Keys |-> 0]

KeysOf(rows) == {k \in Keys : rows[k] > 0}

\* mutant of load_dataframe: an empty frame is refused
load_dataframe_RejectsEmpty(rows, df, write_disposition, accept) ==
    IF df = {} \/ ~IoNameBound THEN [ok |-> FALSE, rows |-> rows, job |-> FALSE]
    ELSE IF ~accept THEN [ok |-> FALSE, rows |-> rows, job |-> TRUE]
    ELSE [ok |-> TRUE, job |-> TRUE,
          rows |-> [k \in Keys |->
                     IF write_disposition = "WRITE_TRUNCATE"
                     THEN (IF k \in df THEN 1 ELSE 0)
                     ELSE (IF k \in df THEN rows[k] + 1 ELSE rows[k])]]

\* load_dataframe: [ok, rows] from the table's rows, the frame, the write
\* disposition and whether the warehouse accepts the load job.  A non-empty
\* frame reaches io.BytesIO, which raises NameError while io is unbound; the
\* except clause turns it into False before any job is submitted.
load_dataframe(rows, df, write_disposition, accept) ==
    IF df = {} THEN [ok |-> TRUE, rows |-> rows, job |-> FALSE]
    ELSE IF ~IoNameBound THEN [ok |-> FALSE, rows |-> rows, job |-> FALSE]
    ELSE IF ~accept THEN [ok |-> FALSE, rows |-> rows, job |-> TRUE]
    ELSE [ok |-> TRUE, job |-> TRUE,
          rows |-> [k \in Keys |->
                     IF write_disposition = "WRITE_TRUNCATE"
                     THEN (IF k \in df THEN 1 ELSE 0)
                     ELSE (IF k \in df THEN rows[k] + 1 ELSE rows[k])]]

\* mutant of delete_rows: a statement that matched no row is reported as failed
delete_rows_FailsWhenAbsent(rows, pk_df, accept) ==
    IF pk_df = {} THEN [ok |-> TRUE, rows |-> rows, job |-> FALSE]
    ELSE IF ~accept \/ (\A k \in pk_df : rows[k] = 0)
    THEN [ok |-> FALSE, rows |-> rows, job |-> TRUE]
    ELSE [ok |-> TRUE, job |-> TRUE,
          rows |-> [k \in Keys |-> IF k \in pk_df THEN 0 ELSE rows[k]]]

\* delete_rows: one DELETE ... WHERE (pk = v) OR ... statement
delete_rows(rows, pk_df, accept) ==
    IF pk_df = {} THEN [ok |-> TRUE, rows |-> rows, job |-> FALSE]
    ELSE IF ~accept THEN [ok |-> FALSE, rows |-> rows, job |-> TRUE]
    ELSE [ok |-> TRUE, job |-> TRUE,
          rows |-> [k \in Keys |-> IF k \in pk_df THEN 0 ELSE rows[k]]]

\* ------------------------------------------------------- CheckpointStore
EmptyState == [t \in Tables |-> NoEntry]

\* get_last_sync_version: .get(table, {}).get('last_sync_version', 0)
get_last_sync_version(st, table_name) ==
    IF st[table_name] = NoEntry THEN 0 ELSE st[table_name]

\* update_sync_version, the in-memory part
update_sync_version(st, table_name, version) ==
    [st EXCEPT ![table_name] = version]

\* _save_state: open(state_file, 'w') then json.dump.  "ok" rewrites the whole
\* document; "open_failed" leaves the old document; "write_failed" leaves a
\* truncated document that _load_state cannot parse and reads as {}.
\* Either failure is logged and swallowed.
_save_state(file, st, outcome) ==
    IF outcome = "ok" THEN st
    ELSE IF outcome = "open_failed" THEN file
    ELSE EmptyState

\* _load_state: the document, or {} when it cannot be read
_load_state(file, readable) ==
    IF readable THEN file ELSE EmptyState

\* ------------------------------------------------------------------ state
VARIABLES
    srcLog,             \* source: the change feed, one entry per version
    tgtExists,          \* warehouse: table -> the table exists
    tgtRows,            \* warehouse: table -> rows per key
    stateFile,          \* replication_state.json: table -> last_sync_version
    pc,                 \* position of the process ("stopped": no process)
    idx,                \* replicate_all_tables: index into TABLES_TO_REPLICATE
    success,            \* replicate_all_tables: the accumulated result
    state,              \* StateManager.state of the running process
    df,                 \* replicate_table: frame of the initial full scan
    changed_df,         \* replicate_table: upserted rows of the change set
    deleted_df,         \* replicate_table: deleted keys of the change set
    current_version,    \* replicate_table / get_changed_data: version read
    last_sync_version,  \* replicate_table: watermark read from the state
    faults,             \* I/O failures and restores injected so far
    pass,               \* observation: what the current (or last) pass did
    hist,               \* observation: table -> the pass before it on that table
    env,                \* the environment the process is started with
    exit_code,          \* what main returned (NoExit: it has not returned)
    connects,           \* observation: connect() calls of the process
    connected,          \* Replicator.initialize returned True
    catalog,            \* one source table: its schema and primary key
    clustering_fields,  \* create_table: table.clustering_fields
    scan,               \* _get_all_data_with_pk on that table: the loop
    call                \* observation: the last call of each Loader operation

vars == <<srcLog, tgtExists, tgtRows, stateFile, pc, idx, success, state, df,
          changed_df, deleted_df, current_version, last_sync_version, faults,
          pass, hist, env, exit_code, connects, connected, catalog,
          clustering_fields, scan, call>>

procVars == <<env, exit_code, connects, connected>>

pagerVars == <<catalog, clustering_fields, scan, call>>

\* TABLES_TO_REPLICATE = os.getenv('TABLES_TO_REPLICATE', '').split(',')
TABLES_TO_REPLICATE == split(env.TABLES_TO_REPLICATE, ",")

srcVars  == <<srcLog>>
tgtVars  == <<tgtExists, tgtRows>>
locVars  == <<df, changed_df, deleted_df, current_version, last_sync_version>>

\* hist[t]: replay is TRUE when the last pass on t applied its change set
\* (deletes, from watermark S) and the stored checkpoint did not move
\* chain is TRUE when every pass on t since its last initial load, that load
\* included, returned success
NoReplay == [replay |-> FALSE, S |-> NoEntry, deletes |-> {}, chain |-> FALSE]

\* pass: tbl, path (initial | incremental), status (running | ok | failed |
\* killed), preFile (the stored checkpoint when the pass began), loads / dels /
\* writes (calls of load_dataframe with rows, of delete_rows with keys, of
\* update_sync_version), applyFailed (a load or delete returned False), applied
\* (both apply steps of an incremental pass are done), srcFault / tgtFault /
\* saveFault (a source query, a warehouse job, the state file write failed),
\* S and V (watermark and feed version read), upserts and deletes (fetched),
\* tgtBefore (keys in the target table when the pass began), replayOf (hist of
\* the table when the pass began), existed and rowsBefore (whether the target
\* table existed, and its rows, when the pass began), batches (the number of
\* rows of each batch query of the full scan, in order), done (the passes of this process before this one, in order,
\* each with the value replicate_table returned).
NoPass == [tbl |-> "", path |-> "none", status |-> "none", preFile |-> NoEntry,
           loads |-> 0, dels |-> 0, writes |-> 0, applyFailed |-> FALSE,
           applied |-> FALSE,
           srcFault |-> FALSE, tgtFault |-> FALSE, saveFault |-> FALSE,
           S |-> NoEntry, V |-> NoEntry, upserts |-> {}, deletes |-> {},
           tgtBefore |-> {}, replayOf |-> NoReplay, existed |-> FALSE,
           rowsBefore |-> EmptyTable, done |-> <<>>, batches |-> <<>>]

\* the passes of the process so far, p included when it has returned
Done(p) ==
    IF p.status \in {"ok", "failed"}
    THEN Append(p.done, [tbl |-> p.tbl, ok |-> p.status = "ok"])
    ELSE p.done

Summary(p, file) ==
    IF p.path = "incremental" /\ p.applied
       /\ file[p.tbl] = p.preFile /\ p.V > p.S
    THEN [replay |-> TRUE, S |-> p.S, deletes |-> p.deletes, chain |-> FALSE]
    ELSE NoReplay

\* the table of the catalog and scan steps before they begin
NoCatalog == [schema |-> <<>>, pk_columns |-> <<>>]

\* last_pk_value = None (key values are 1 and above)
None == 0

\* no call of a Loader operation yet
NoCall == [made |-> FALSE, table |-> "", frame |-> {}, ok |-> FALSE,
           job |-> FALSE, before |-> EmptyTable, after |-> EmptyTable]

NoScan == [at |-> "off", rows |-> {}, batch_size |-> 0, all_data |-> <<>>,
           last_pk_value |-> None]

\* no process has run yet: empty source, empty warehouse, no state file
ProcessInit ==
    /\ srcLog = <<>>
    /\ tgtExists = [t \in Tables |-> FALSE]
    /\ tgtRows = [t \in Tables |-> EmptyTable]
    /\ stateFile = EmptyState
    /\ pc = "stopped"
    /\ idx = 1
    /\ success = TRUE
    /\ state = EmptyState
    /\ df = {}
    /\ changed_df = {}
    /\ deleted_df = {}
    /\ current_version = 0
    /\ last_sync_version = 0
    /\ faults = 0
    /\ pass = NoPass
    /\ hist = [t \in Tables |-> NoReplay]
    /\ exit_code = NoExit
    /\ connects = 0
    /\ connected = FALSE

Init ==
    /\ ProcessInit
    /\ env \in Envs
    /\ catalog = NoCatalog
    /\ clustering_fields = <<>>
    /\ scan = NoScan
    /\ call = [load_dataframe |-> NoCall, delete_rows |-> NoCall]

\* outcomes an I/O call may have: failure only while the budget lasts
Outcomes == IF faults < MaxFaults THEN {TRUE, FALSE} ELSE {TRUE}

SaveOutcomes ==
    IF faults < MaxFaults THEN {"ok", "open_failed", "write_failed"} ELSE {"ok"}

Charge(ok) == faults' = IF ok THEN faults ELSE faults + 1

\* table_name = table_name.strip()
table_name == strip(TABLES_TO_REPLICATE[idx])

ResetLocals ==
    /\ df' = {}
    /\ changed_df' = {}
    /\ deleted_df' = {}
    /\ current_version' = 0
    /\ last_sync_version' = 0

\* replicate_table returns ok, with the state file as the pass leaves it: back
\* in the loop of replicate_all_tables
Return(ok, p, file) ==
    /\ pc' = "loop"
    /\ idx' = idx + 1
    /\ success' = (success /\ ok)
    /\ pass' = [p EXCEPT !.status = IF ok THEN "ok" ELSE "failed"]
    /\ hist' = [hist EXCEPT ![p.tbl] =
                  [Summary(p, file) EXCEPT
                     !.chain = ok /\ (p.path = "initial" \/ p.replayOf.chain)]]
    /\ ResetLocals

\* ----------------------------------------------------------------- source
\* A source write commutes with every step of the process that does not read
\* what it changes, so it is taken right before a step that does: a write to
\* any table before a read of the feed version, a write to the table of the
\* pass before a query on that table.
SourceIsRead(t) ==
    \/ pc \in {"il_version", "inc_version"}
    \/ pc \in {"scan", "inc_changed", "inc_deleted"} /\ t = table_name

\* a transaction on the source commits one write and the next feed version
SrcInsert ==
    \E t \in ChangeTracked, k \in Keys :
        /\ SourceIsRead(t)
        /\ Len(srcLog) < MaxVersion
        /\ k \notin SrcRows(srcLog, t)
        /\ srcLog' = Append(srcLog, [tbl |-> t, key |-> k, op |-> "I"])
        /\ UNCHANGED <<tgtExists, tgtRows, stateFile, pc, idx, success, state,
                       locVars, faults, pass, hist, procVars, pagerVars>>

SrcUpdate ==
    \E t \in ChangeTracked, k \in Keys :
        /\ SourceIsRead(t)
        /\ Len(srcLog) < MaxVersion
        /\ k \in SrcRows(srcLog, t)
        /\ srcLog' = Append(srcLog, [tbl |-> t, key |-> k, op |-> "U"])
        /\ UNCHANGED <<tgtExists, tgtRows, stateFile, pc, idx, success, state,
                       locVars, faults, pass, hist, procVars, pagerVars>>

SrcDelete ==
    \E t \in ChangeTracked, k \in Keys :
        /\ SourceIsRead(t)
        /\ Len(srcLog) < MaxVersion
        /\ k \in SrcRows(srcLog, t)
        /\ srcLog' = Append(srcLog, [tbl |-> t, key |-> k, op |-> "D"])
        /\ UNCHANGED <<tgtExists, tgtRows, stateFile, pc, idx, success, state,
                       locVars, faults, pass, hist, procVars, pagerVars>>

\* The source database is restored from a backup taken at version v: the
\* feed then reports a version below one it reported before.  A restore needs
\* exclusive access to the database, so no replication process is connected.
SrcRestore ==
    \E v \in 0..(Len(srcLog) - 1) :
        /\ pc = "stopped"
        /\ faults < MaxFaults
        /\ faults' = faults + 1
        /\ srcLog' = SubSeq(srcLog, 1, v)
        /\ UNCHANGED <<tgtExists, tgtRows, stateFile, pc, idx, success, state,
                       locVars, pass, hist, procVars, pagerVars>>

\* ---------------------------------------------------------------- process
\* main, up to the call of replicate_all_tables: the three checks of the
\* configuration, Replicator() (which constructs StateManager, which loads
\* the state file), initialize() (which calls connect() on the source and
\* then on the target, whatever the first returned).  A refused connection
\* ends the process before it does anything, so it is not counted in faults.
Start ==
    /\ pc = "stopped"
    /\ IF \/ env.SQL_SERVER = "" \/ env.SQL_DATABASE = ""
          \/ env.BQ_PROJECT_ID = "" \/ env.BQ_DATASET = ""
          \/ TABLES_TO_REPLICATE = <<>>
       THEN /\ exit_code' = 1
            /\ connects' = 0
            /\ connected' = FALSE
            /\ UNCHANGED <<pc, state, faults>>
       ELSE \E readable \in Outcomes, sql_connected \in BOOLEAN, bq_connected \in BOOLEAN :
            /\ ~(sql_connected /\ bq_connected) => readable
            /\ Charge(readable)
            /\ connects' = 2
            /\ connected' = (sql_connected /\ bq_connected)
            /\ IF sql_connected /\ bq_connected
               THEN /\ pc' = "loop"
                    /\ state' = _load_state(stateFile, readable)
                    /\ exit_code' = NoExit
               ELSE /\ exit_code' = 1
                    /\ UNCHANGED <<pc, state>>
    /\ idx' = 1
    /\ success' = TRUE
    /\ pass' = NoPass
    /\ UNCHANGED <<srcVars, tgtVars, stateFile, locVars, hist, env, pagerVars>>

\* the process is terminated from outside, at any point
Kill ==
    /\ pc # "stopped"
    /\ pc' = "stopped"
    /\ idx' = 1
    /\ success' = TRUE
    /\ state' = EmptyState
    /\ ResetLocals
    /\ pass' = NoPass
    /\ hist' = IF pass.status = "running"
               THEN [hist EXCEPT ![pass.tbl] = Summary(pass, stateFile)]
               ELSE hist
    /\ exit_code' = NoExit
    /\ connects' = 0
    /\ connected' = FALSE
    /\ UNCHANGED <<srcVars, tgtVars, stateFile, faults, env, pagerVars>>

\* mutant of Loop: the loop is left at the first table that failed
Loop_StopsAtFailure ==
    /\ pc = "loop"
    /\ IF idx > Len(TABLES_TO_REPLICATE) \/ ~success
       THEN /\ pc' = "stopped"
            /\ idx' = 1
            /\ success' = TRUE
            /\ state' = EmptyState
            /\ pass' = [NoPass EXCEPT !.done = Done(pass)]
            /\ exit_code' = IF success THEN 0 ELSE 1
       ELSE IF table_name = ""
       THEN /\ idx' = idx + 1
            /\ UNCHANGED <<pc, success, state, pass, exit_code>>
       ELSE /\ pc' = "check_ct"
            /\ pass' = [NoPass EXCEPT !.tbl = table_name, !.status = "running",
                                      !.preFile = stateFile[table_name],
                                      !.tgtBefore = KeysOf(tgtRows[table_name]),
                                      !.replayOf = hist[table_name],
                                      !.existed = tgtExists[table_name],
                                      !.rowsBefore = tgtRows[table_name],
                                      !.done = Done(pass)]
            /\ UNCHANGED <<idx, success, state, exit_code>>
    /\ UNCHANGED <<srcVars, tgtVars, stateFile, locVars, faults, hist, env,
                   connects, connected, pagerVars>>

\* replicate_all_tables: loop head.  After the last entry the function
\* returns success and main returns 0 or 1.
Loop ==
    /\ pc = "loop"
    /\ IF idx > Len(TABLES_TO_REPLICATE)
       THEN /\ pc' = "stopped"
            /\ idx' = 1
            /\ success' = TRUE
            /\ state' = EmptyState
            /\ pass' = [NoPass EXCEPT !.done = Done(pass)]
            /\ exit_code' = IF success THEN 0 ELSE 1
       ELSE IF table_name = ""
       THEN /\ idx' = idx + 1
            /\ UNCHANGED <<pc, success, state, pass, exit_code>>
       ELSE /\ pc' = "check_ct"
            /\ pass' = [NoPass EXCEPT !.tbl = table_name, !.status = "running",
                                      !.preFile = stateFile[table_name],
                                      !.tgtBefore = KeysOf(tgtRows[table_name]),
                                      !.replayOf = hist[table_name],
                                      !.existed = tgtExists[table_name],
                                      !.rowsBefore = tgtRows[table_name],
                                      !.done = Done(pass)]
            /\ UNCHANGED <<idx, success, state, exit_code>>
    /\ UNCHANGED <<srcVars, tgtVars, stateFile, locVars, faults, hist, env,
                   connects, connected, pagerVars>>

\* result[0].IsChangeTrackingEnabled; a failed catalog query returns [] and
\* reads as "table not found"
is_change_tracking_enabled(table, ok) == ok /\ table \in ChangeTracked

\* mutant of CheckCT: the table is replicated whatever the check returned
CheckCT_IgnoresResult ==
    /\ pc = "check_ct"
    /\ \E ok \in Outcomes :
        /\ Charge(ok)
        /\ pc' = "schema"
        /\ UNCHANGED <<idx, success, locVars, pass, hist>>
    /\ UNCHANGED <<srcVars, tgtVars, stateFile, state>>
    /\ UNCHANGED <<procVars, pagerVars>>

\* replicate_table, step 1: if not is_change_tracking_enabled: return False
CheckCT ==
    /\ pc = "check_ct"
    /\ \E ok \in Outcomes :
        /\ Charge(ok)
        /\ IF is_change_tracking_enabled(table_name, ok)
           THEN /\ pc' = "schema"
                /\ UNCHANGED <<idx, success, locVars, pass, hist>>
           ELSE Return(FALSE, [pass EXCEPT !.srcFault = ~ok], stateFile)
    /\ UNCHANGED <<srcVars, tgtVars, stateFile, state>>
    /\ UNCHANGED <<procVars, pagerVars>>

\* step 2: get_table_schema ([] on a failed query fails the table), then
\* get_primary_key_columns
Schema ==
    /\ pc = "schema"
    /\ \E ok \in Outcomes :
        /\ Charge(ok)
        /\ IF ok
           THEN /\ pc' = "exists"
                /\ UNCHANGED <<idx, success, locVars, pass, hist>>
           ELSE Return(FALSE, [pass EXCEPT !.srcFault = TRUE], stateFile)
    /\ UNCHANGED <<srcVars, tgtVars, stateFile, state>>
    /\ UNCHANGED <<procVars, pagerVars>>

\* step 3: table_exists chooses the path
table_exists(exists, table) == exists[table]

\* mutant of Exists: the path is chosen by the presence of a checkpoint
Exists_ByCheckpoint ==
    /\ pc = "exists"
    /\ IF state[table_name] # NoEntry
       THEN /\ pc' = "inc_version"
            /\ pass' = [pass EXCEPT !.path = "incremental"]
       ELSE /\ pc' = "create"
            /\ pass' = [pass EXCEPT !.path = "initial"]
    /\ UNCHANGED <<srcVars, tgtVars, stateFile, idx, success, state, locVars,
                   faults, hist>>
    /\ UNCHANGED <<procVars, pagerVars>>

Exists ==
    /\ pc = "exists"
    /\ IF table_exists(tgtExists, table_name)
       THEN /\ pc' = "inc_version"
            /\ pass' = [pass EXCEPT !.path = "incremental"]
       ELSE /\ pc' = "create"
            /\ pass' = [pass EXCEPT !.path = "initial"]
    /\ UNCHANGED <<srcVars, tgtVars, stateFile, idx, success, state, locVars,
                   faults, hist>>
    /\ UNCHANGED <<procVars, pagerVars>>

\* ------------------------------------------------------------ initial load
\* create_table
Create ==
    /\ pc = "create"
    /\ \E ok \in Outcomes :
        /\ Charge(ok)
        /\ IF ok
           THEN /\ tgtExists' = [tgtExists EXCEPT ![table_name] = TRUE]
                /\ pc' = "scan"
                /\ UNCHANGED <<idx, success, locVars, pass, hist>>
           ELSE /\ UNCHANGED tgtExists
                /\ Return(FALSE, [pass EXCEPT !.tgtFault = TRUE], stateFile)
    /\ UNCHANGED <<srcVars, tgtRows, stateFile, state>>
    /\ UNCHANGED <<procVars, pagerVars>>

\* get_all_data; failAt = -1 is a scan without a failed query, 0 a failed
\* COUNT(*), n a failed n-th batch query.  An empty frame skips the load.
Scan ==
    /\ pc = "scan"
    /\ \E failAt \in (IF faults < MaxFaults THEN -1..(MaxKey + 1) ELSE {-1}) :
        LET rows == SrcRows(srcLog, table_name)
            data == get_all_data(rows, PrimaryKey[table_name], BatchSize, failAt)
        IN  /\ failAt <= BatchQueries(rows, PrimaryKey[table_name], BatchSize)
            /\ Charge(failAt = -1)
            /\ df' = data
            /\ pass' = [pass EXCEPT
                          !.srcFault = (failAt >= 0), !.upserts = data,
                          !.batches =
                              LET b == ScanBatches(rows, PrimaryKey[table_name],
                                                   BatchSize, failAt)
                              IN  [i \in DOMAIN b |-> Cardinality(b[i])]]
            /\ pc' = IF data = {} THEN "il_version" ELSE "il_load"
    /\ UNCHANGED <<srcVars, tgtVars, stateFile, idx, success, state, changed_df,
                   deleted_df, current_version, last_sync_version, hist>>
    /\ UNCHANGED <<procVars, pagerVars>>

\* load_dataframe(df, table_name), write disposition WRITE_TRUNCATE
ILLoad ==
    /\ pc = "il_load"
    /\ \E accept \in Outcomes :
        LET r == load_dataframe(tgtRows[table_name], df, "WRITE_TRUNCATE", accept)
            p == [pass EXCEPT !.loads = 1, !.applyFailed = ~r.ok,
                              !.tgtFault = (r.job /\ ~accept)]
        IN  /\ Charge(accept \/ ~r.job)
            /\ tgtRows' = [tgtRows EXCEPT ![table_name] = r.rows]
            /\ IF r.ok
               THEN /\ pc' = "il_version"
                    /\ pass' = p
                    /\ UNCHANGED <<idx, success, locVars, hist>>
               ELSE Return(FALSE, p, stateFile)
    /\ UNCHANGED <<srcVars, tgtExists, stateFile, state>>
    /\ UNCHANGED <<procVars, pagerVars>>

\* get_change_tracking_current_version (0 when the query fails), then
\* update_sync_version
ILVersion ==
    /\ pc = "il_version"
    /\ \E ok \in Outcomes, outcome \in SaveOutcomes :
        LET v == IF ok THEN SrcVersionOf(srcLog) ELSE 0
            n == (IF ok THEN 0 ELSE 1) + (IF outcome = "ok" THEN 0 ELSE 1)
        IN  /\ faults + n <= MaxFaults
            /\ faults' = faults + n
            /\ state' = update_sync_version(state, table_name, v)
            /\ stateFile' = _save_state(stateFile, state', outcome)
            /\ Return(TRUE, [pass EXCEPT !.writes = @ + 1, !.V = v,
                                         !.srcFault = (@ \/ ~ok),
                                         !.saveFault = (outcome # "ok")],
                     stateFile')
    /\ UNCHANGED <<srcVars, tgtVars>>
    /\ UNCHANGED <<procVars, pagerVars>>

\* ------------------------------------------------------------- incremental
\* get_last_sync_version, then the head of get_changed_data:
\* is_change_tracking_enabled and get_change_tracking_current_version.
\* Either query failing gives current_version 0; a version not above the
\* watermark returns the empty change set at once.  replicate_table then
\* takes current_version == 0 for a failure.
IncVersion ==
    /\ pc = "inc_version"
    /\ \E ok \in Outcomes :
        LET last == get_last_sync_version(state, table_name)
            v    == IF ok THEN SrcVersionOf(srcLog) ELSE 0
            p    == [pass EXCEPT !.S = last, !.V = v, !.srcFault = ~ok]
        IN  /\ Charge(ok)
            /\ IF v <= last
               THEN IF v = 0
                    THEN Return(FALSE, p, stateFile)
                    ELSE /\ pc' = "inc_load"
                         /\ last_sync_version' = last
                         /\ current_version' = v
                         /\ pass' = p
                         /\ UNCHANGED <<idx, success, df, changed_df, deleted_df, hist>>
               ELSE /\ pc' = "inc_changed"
                    /\ last_sync_version' = last
                    /\ current_version' = v
                    /\ pass' = p
                    /\ UNCHANGED <<idx, success, df, changed_df, deleted_df, hist>>
    /\ UNCHANGED <<srcVars, tgtVars, stateFile, state>>
    /\ UNCHANGED <<procVars, pagerVars>>

\* get_changed_data: get_primary_key_columns (none, or a failed query: the
\* call returns version 0 and the table fails), then the upsert query; a
\* failed upsert query returns [] and reads as "no changed rows"
IncChanged ==
    /\ pc = "inc_changed"
    /\ \E pkOk \in Outcomes, ok \in Outcomes :
        LET pk_columns == IF pkOk THEN PrimaryKey[table_name] ELSE <<>>
            changed_rows == IF ok THEN UpsertQuery(srcLog, table_name, last_sync_version)
                            ELSE {}
        IN  /\ pkOk \/ ok
            /\ pk_columns = <<>> => ok
            /\ Charge(pkOk /\ ok)
            /\ IF pk_columns = <<>>
               THEN Return(FALSE, [pass EXCEPT !.srcFault = ~pkOk], stateFile)
               ELSE /\ pc' = "inc_deleted"
                    /\ changed_df' = changed_rows
                    /\ pass' = [pass EXCEPT !.srcFault = ~ok, !.upserts = changed_rows]
                    /\ UNCHANGED <<idx, success, df, deleted_df, current_version,
                                   last_sync_version, hist>>
    /\ UNCHANGED <<srcVars, tgtVars, stateFile, state>>
    /\ UNCHANGED <<procVars, pagerVars>>

\* get_changed_data: the delete query, primary keys only; a failed query
\* returns [] and reads as "no deleted rows"
IncDeleted ==
    /\ pc = "inc_deleted"
    /\ \E ok \in Outcomes :
        LET deleted_rows == IF ok THEN DeleteQuery(srcLog, table_name, last_sync_version)
                            ELSE {}
        IN  /\ Charge(ok)
            /\ deleted_df' = deleted_rows
            /\ pass' = [pass EXCEPT !.srcFault = (@ \/ ~ok), !.deletes = deleted_rows]
            /\ pc' = "inc_load"
    /\ UNCHANGED <<srcVars, tgtVars, stateFile, idx, success, state, df, changed_df,
                   current_version, last_sync_version, hist>>
    /\ UNCHANGED <<procVars, pagerVars>>

\* if not changed_df.empty: load_dataframe(..., 'WRITE_APPEND')
IncLoad ==
    /\ pc = "inc_load"
    /\ \A k \in changed_df : tgtRows[table_name][k] < MaxDup
    /\ IF changed_df = {}
       THEN /\ pc' = "inc_delete"
            /\ UNCHANGED <<tgtRows, idx, success, locVars, faults, pass, hist>>
       ELSE \E accept \in Outcomes :
            LET r == load_dataframe(tgtRows[table_name], changed_df, "WRITE_APPEND", accept)
                p == [pass EXCEPT !.loads = 1, !.applyFailed = ~r.ok,
                                  !.tgtFault = (r.job /\ ~accept)]
            IN  /\ Charge(accept \/ ~r.job)
                /\ tgtRows' = [tgtRows EXCEPT ![table_name] = r.rows]
                /\ IF r.ok
                   THEN /\ pc' = "inc_delete"
                        /\ pass' = p
                        /\ UNCHANGED <<idx, success, locVars, hist>>
                   ELSE Return(FALSE, p, stateFile)
    /\ UNCHANGED <<srcVars, tgtExists, stateFile, state>>
    /\ UNCHANGED <<procVars, pagerVars>>

\* mutant of IncDelete: the result of delete_rows is not looked at
IncDelete_IgnoresFailure ==
    /\ pc = "inc_delete"
    /\ IF deleted_df = {}
       THEN /\ pc' = "inc_update"
            /\ pass' = [pass EXCEPT !.applied = TRUE]
            /\ UNCHANGED <<tgtRows, idx, success, locVars, faults, hist>>
       ELSE \E accept \in Outcomes :
            LET r == delete_rows(tgtRows[table_name], deleted_df, accept)
                p == [pass EXCEPT !.dels = 1, !.applyFailed = ~r.ok,
                                  !.tgtFault = ~accept, !.applied = r.ok]
            IN  /\ Charge(accept)
                /\ tgtRows' = [tgtRows EXCEPT ![table_name] = r.rows]
                /\ pc' = "inc_update"
                /\ pass' = p
                /\ UNCHANGED <<idx, success, locVars, hist>>
    /\ UNCHANGED <<srcVars, tgtExists, stateFile, state>>
    /\ UNCHANGED <<procVars, pagerVars>>

\* if not deleted_df.empty: delete_rows
IncDelete ==
    /\ pc = "inc_delete"
    /\ IF deleted_df = {}
       THEN /\ pc' = "inc_update"
            /\ pass' = [pass EXCEPT !.applied = TRUE]
            /\ UNCHANGED <<tgtRows, idx, success, locVars, faults, hist>>
       ELSE \E accept \in Outcomes :
            LET r == delete_rows(tgtRows[table_name], deleted_df, accept)
                p == [pass EXCEPT !.dels = 1, !.applyFailed = ~r.ok,
                                  !.tgtFault = ~accept, !.applied = r.ok]
            IN  /\ Charge(accept)
                /\ tgtRows' = [tgtRows EXCEPT ![table_name] = r.rows]
                /\ IF r.ok
                   THEN /\ pc' = "inc_update"
                        /\ pass' = p
                        /\ UNCHANGED <<idx, success, locVars, hist>>
                   ELSE Return(FALSE, p, stateFile)
    /\ UNCHANGED <<srcVars, tgtExists, stateFile, state>>
    /\ UNCHANGED <<procVars, pagerVars>>

\* mutant of IncUpdate: the feed version is read again at the write
IncUpdate_RereadsVersion ==
    /\ pc = "inc_update"
    /\ \E outcome \in SaveOutcomes :
        /\ Charge(outcome = "ok")
        /\ state' = update_sync_version(state, table_name, SrcVersionOf(srcLog))
        /\ stateFile' = _save_state(stateFile, state', outcome)
        /\ Return(TRUE, [pass EXCEPT !.writes = @ + 1,
                                     !.saveFault = (outcome # "ok")],
                     stateFile')
    /\ UNCHANGED <<srcVars, tgtVars>>
    /\ UNCHANGED <<procVars, pagerVars>>

\* update_sync_version(table_name, current_version); return True
IncUpdate ==
    /\ pc = "inc_update"
    /\ \E outcome \in SaveOutcomes :
        /\ Charge(outcome = "ok")
        /\ state' = update_sync_version(state, table_name, current_version)
        /\ stateFile' = _save_state(stateFile, state', outcome)
        /\ Return(TRUE, [pass EXCEPT !.writes = @ + 1,
                                     !.saveFault = (outcome # "ok")],
                     stateFile')
    /\ UNCHANGED <<srcVars, tgtVars>>
    /\ UNCHANGED <<procVars, pagerVars>>

\* ------------------------------------------------------------------- spec
Next ==
    \/ SrcInsert
    \/ SrcUpdate
    \/ SrcDelete
    \/ SrcRestore
    \/ Start
    \/ Kill
    \/ Loop
    \/ CheckCT
    \/ Schema
    \/ Exists
    \/ Create
    \/ Scan
    \/ ILLoad
    \/ ILVersion
    \/ IncVersion
    \/ IncChanged
    \/ IncDeleted
    \/ IncLoad
    \/ IncDelete
    \/ IncUpdate

Spec == Init /\ [][Next]_vars

TypeOK ==
    /\ Len(srcLog) <= MaxVersion
    /\ faults \in 0..MaxFaults
    /\ \A t \in Tables : stateFile[t] \in NoEntry..MaxVersion
    /\ \A t \in Tables : state[t] \in NoEntry..MaxVersion
    /\ \A t \in Tables, k \in Keys : tgtRows[t][k] \in 0..MaxDup
    /\ env \in Envs
    /\ exit_code \in {NoExit, 0, 1}
    /\ connects \in 0..2

\* ------------------------------------------------------- catalog and scan
\* create_table and the keyed scan on one table of any shape, apart from the
\* replication process: the table has MaxColumns columns, named by their
\* column_id, and any primary key over them.
Columns == 1..MaxColumns

Range(q) == {q[i] : i \in DOMAIN q}

\* get_table_schema: one descriptor per column, ORDER BY c.column_id
TableSchema == [i \in Columns |-> [name |-> i, is_primary_key |-> FALSE]]

\* get_primary_key_columns: the key columns, ORDER BY ic.key_ordinal
PrimaryKeys ==
    UNION {{q \in [1..n -> Columns] : \A i, j \in 1..n : i # j => q[i] # q[j]} :
           n \in 0..MaxColumns}

\* replicate_table: col['is_primary_key'] = True for col['name'] in pk_columns
MarkPrimaryKeys(schema, pk) ==
    [i \in DOMAIN schema |->
        [schema[i] EXCEPT !.is_primary_key = (schema[i].name \in Range(pk))]]

\* pk_columns[:4]
ClusteringCap == 4

\* create_table: the names of the columns marked is_primary_key, in the order
\* of schema_columns, cut to the first four; <<>> leaves clustering_fields unset
create_table(schema_columns) ==
    LET marked == SelectSeq(schema_columns, LAMBDA col : col.is_primary_key)
        names  == [i \in 1..Len(marked) |-> marked[i].name]
    IN  SubSeq(names, 1, Min(ClusteringCap, Len(names)))

\* Rows of the scanned table, as the values of their key columns: <<a, b>> is
\* a for pk_columns[0] and b for the second key column (1 when the key has
\* one column).  The key is unique over the rows.
Values == 1..MaxValue

RowSets(pk) ==
    IF Len(pk) = 1 THEN SUBSET (Values \X {1}) ELSE SUBSET (Values \X Values)

\* SELECT TOP n * ... ORDER BY pk_column over the rows cand: every sequence of
\* min(n, |cand|) rows of cand that is sorted by the first key column alone
\* (rows equal in it come in any order) and leaves no smaller row out
TopRows(cand, n) ==
    LET m == Min(n, Cardinality(cand))
    IN  {q \in [1..m -> cand] :
            /\ \A i, j \in 1..m : i < j => (q[i] # q[j] /\ q[i][1] <= q[j][1])
            /\ \A r \in cand \ Range(q) : \A i \in 1..m : q[i][1] <= r[1]}

processVars == <<srcLog, tgtExists, tgtRows, stateFile, pc, idx, success, state,
                 locVars, faults, pass, hist, procVars>>

PagerInit ==
    /\ ProcessInit
    /\ env \in {e \in Envs : /\ e.SQL_SERVER # "" /\ e.SQL_DATABASE # ""
                            /\ e.BQ_PROJECT_ID # "" /\ e.BQ_DATASET # ""
                            /\ e.TABLES_TO_REPLICATE # <<>>}
    /\ catalog \in [schema : {TableSchema}, pk_columns : PrimaryKeys]
    /\ clustering_fields = <<>>
    /\ scan = [NoScan EXCEPT !.at = "schema"]
    /\ call = [load_dataframe |-> NoCall, delete_rows |-> NoCall]

\* replicate_table, lines 62-72: the key columns are marked in the schema and
\* create_table derives the clustering fields from the marks
PagerCreateTable ==
    /\ scan.at = "schema"
    /\ clustering_fields' =
           create_table(MarkPrimaryKeys(catalog.schema, catalog.pk_columns))
    /\ scan' = [scan EXCEPT !.at = "created"]
    /\ UNCHANGED <<catalog, call, processVars>>

\* get_all_data on a table with a key of one or two columns: an empty table
\* returns at once, any other goes to _get_all_data_with_pk with pk_columns[0]
PagerGetAllData ==
    /\ scan.at = "created"
    /\ Len(catalog.pk_columns) \in {1, 2}
    /\ \E rows \in RowSets(catalog.pk_columns), batch_size \in 1..MaxBatch :
        scan' = [at |-> IF rows = {} THEN "done" ELSE "scanning",
                 rows |-> rows, batch_size |-> batch_size, all_data |-> <<>>,
                 last_pk_value |-> None]
    /\ UNCHANGED <<catalog, clustering_fields, call, processVars>>

\* _get_all_data_with_pk: one turn of the while loop
PagerBatch ==
    /\ scan.at = "scanning"
    /\ LET cand == IF scan.last_pk_value = None THEN scan.rows
                   ELSE {r \in scan.rows : r[1] > scan.last_pk_value}
       IN  \E batch \in TopRows(cand, scan.batch_size) :
             IF batch = <<>>
             THEN scan' = [scan EXCEPT !.at = "done"]
             ELSE scan' = [scan EXCEPT
                             !.all_data = @ \o batch,
                             !.last_pk_value = batch[Len(batch)][1],
                             !.at = IF Len(batch) < scan.batch_size
                                    THEN "done" ELSE "scanning"]
    /\ UNCHANGED <<catalog, clustering_fields, call, processVars>>

PagerNext ==
    \/ PagerCreateTable
    \/ PagerGetAllData
    \/ PagerBatch

PagerSpec == PagerInit /\ [][PagerNext]_vars

\* ------------------------------------------------------------------ loader
\* The two operations of BigQueryConnection on the rows of a table, called
\* with any frame on any table content; the warehouse accepts or rejects the
\* job the call submits, if it submits one.
LoaderInit ==
    /\ srcLog = <<>>
    /\ tgtExists = [t \in Tables |-> TRUE]
    /\ tgtRows \in {[t \in Tables |-> IF t = "orders" THEN r ELSE EmptyTable] :
                        r \in [Keys -> 0..MaxDup]}
    /\ stateFile = EmptyState
    /\ pc = "stopped"
    /\ idx = 1
    /\ success = TRUE
    /\ state = EmptyState
    /\ df = {}
    /\ changed_df = {}
    /\ deleted_df = {}
    /\ current_version = 0
    /\ last_sync_version = 0
    /\ faults = 0
    /\ pass = NoPass
    /\ hist = [t \in Tables |-> NoReplay]
    /\ exit_code = NoExit
    /\ connects = 0
    /\ connected = FALSE
    /\ env \in {e \in Envs : /\ e.SQL_SERVER # "" /\ e.SQL_DATABASE # ""
                            /\ e.BQ_PROJECT_ID # "" /\ e.BQ_DATASET # ""
                            /\ e.TABLES_TO_REPLICATE = <<"audit", ",", "orders">>}
    /\ catalog = NoCatalog
    /\ clustering_fields = <<>>
    /\ scan = NoScan
    /\ call = [load_dataframe |-> NoCall, delete_rows |-> NoCall]

loaderFrame == <<srcLog, tgtExists, stateFile, pc, idx, success, state, locVars,
                 faults, pass, hist, procVars, catalog, clustering_fields, scan>>

\* load_dataframe(frame, table, write_disposition)
LoaderLoad ==
    \E table \in Tables, frame \in SUBSET Keys, accept \in BOOLEAN,
       write_disposition \in {"WRITE_TRUNCATE", "WRITE_APPEND"} :
        LET r == load_dataframe(tgtRows[table], frame, write_disposition, accept)
        IN  /\ \A k \in frame : tgtRows[table][k] < MaxDup
            /\ tgtRows' = [tgtRows EXCEPT ![table] = r.rows]
            /\ call' = [call EXCEPT !.load_dataframe =
                          [made |-> TRUE, table |-> table, frame |-> frame,
                           ok |-> r.ok, job |-> r.job,
                           before |-> tgtRows[table], after |-> r.rows]]
            /\ UNCHANGED loaderFrame

\* delete_rows(table, frame)
LoaderDelete ==
    \E table \in Tables, frame \in SUBSET Keys, accept \in BOOLEAN :
        LET r == delete_rows(tgtRows[table], frame, accept)
        IN  /\ tgtRows' = [tgtRows EXCEPT ![table] = r.rows]
            /\ call' = [call EXCEPT !.delete_rows =
                          [made |-> TRUE, table |-> table, frame |-> frame,
                           ok |-> r.ok, job |-> r.job,
                           before |-> tgtRows[table], after |-> r.rows]]
            /\ UNCHANGED loaderFrame

LoaderNext ==
    \/ LoaderLoad
    \/ LoaderDelete

LoaderSpec == LoaderInit /\ [][LoaderNext]_vars

\* ------------------------------------------------------------------ claims
PassEnded == pass.status \in {"ok", "failed"}

\* replicate_table has returned to the loop of the process that ran it
Returned == pc = "loop" /\ idx > 1 /\ PassEnded

\* the step is the call of update_sync_version that ends a pass
WritesCheckpoint == pc \in {"il_version", "inc_update"} /\ pc' = "loop"

\* keys of table t written by the source at a version in (lo, hi]
WrittenIn(log, t, lo, hi) == {k \in Keys : LastWrite(log, t, k, lo, hi) > 0}

\* C1: every value update_sync_version writes for a table is greater than or
\* equal to the value stored for that table before, in the state file and in
\* the state of the running process, whatever version the feed reports.
C1_CheckpointMonotone ==
    [][WritesCheckpoint =>
          /\ state'[table_name] >= get_last_sync_version(stateFile, table_name)
          /\ state'[table_name] >= get_last_sync_version(state, table_name)]_vars

\* C2: the stored checkpoint changes only in the step that ends a pass, at
\* most once per pass and after every load and delete of the pass returned
\* success; a pass that failed or was killed leaves the stored checkpoint of
\* its table at the value it had when the pass began.
C2_CheckpointAfterApply ==
    [][/\ stateFile' # stateFile =>
            /\ WritesCheckpoint
            /\ pass.writes = 0
            /\ ~pass.applyFailed
            /\ pass'.status = "ok"
       /\ pass'.writes <= 1
       /\ (pass.status = "running" /\ pass'.status # "ok") =>
            /\ pass'.writes = 0
            /\ stateFile'[pass.tbl] = pass.preFile]_vars

\* C2 witness: a delete_rows call returned failure, the pass failed and the
\* stored checkpoint is the one the pass began with.
C2_Witness ==
    /\ pass.status = "failed"
    /\ pass.path = "incremental"
    /\ pass.dels = 1
    /\ pass.applyFailed
    /\ pass.preFile # NoEntry
    /\ stateFile[pass.tbl] = pass.preFile

\* C3: an incremental pass that advanced the checkpoint from S to V had no
\* failed change-feed query, and applied to the target every key the source
\* wrote at a version in (S, V].
C3_NoDroppedChanges ==
    (pass.status = "ok" /\ pass.path = "incremental" /\ pass.V > pass.S) =>
        /\ ~pass.srcFault
        /\ WrittenIn(srcLog, pass.tbl, pass.S, pass.V) \subseteq
               (pass.upserts \cup pass.deletes)

\* C4: a table without a stored checkpoint (Uninitialized: its initial load
\* failed or was interrupted) never takes the incremental path; its next pass
\* is an initial load again.
C4_InitialLoadRetried ==
    (pass.status = "running" /\ pass.preFile = NoEntry) => pass.path # "incremental"

\* C5: an initial-load pass that returned success had no failed scan query
\* and no failed version read.
C5_InitialLoadAllStepsSucceed ==
    (pass.status = "ok" /\ pass.path = "initial") => ~pass.srcFault

\* C6: a pass that returned success has its checkpoint in the state file:
\* the document holds the version update_sync_version was given.
C6_CheckpointWriteFailsLoudly ==
    (Returned /\ pass.status = "ok") =>
        /\ ~pass.saveFault
        /\ stateFile[pass.tbl] = state[pass.tbl]

\* C7: an incremental pass whose change set holds a delete, and whose jobs
\* the warehouse did not reject, executes the delete step and ends with
\* every deleted key absent from the target table.
C7_DeleteWins ==
    (PassEnded /\ pass.path = "incremental" /\ pass.deletes # {} /\ ~pass.tgtFault) =>
        /\ pass.dels = 1
        /\ pass.status = "ok"
        /\ pass.deletes \cap KeysOf(tgtRows[pass.tbl]) = {}

\* the pass runs again from the watermark of a pass that applied its change
\* set and did not move the stored checkpoint
IsReplay ==
    /\ pass.tbl \in Tables
    /\ pass.path = "incremental"
    /\ pass.replayOf.replay
    /\ pass.S = pass.replayOf.S

C9_NoOpSafety ==
    (Returned /\ pass.path = "incremental" /\ ~pass.srcFault
       /\ pass.preFile = pass.S /\ pass.V = pass.S) =>
        /\ pass.status = "ok"
        /\ pass.loads = 0
        /\ pass.dels = 0
        /\ state[pass.tbl] = pass.V

C11_MissingPrimaryKeyRefused ==
    (pass.tbl \in Tables /\ PassEnded /\ pass.path = "incremental"
       /\ PrimaryKey[pass.tbl] = <<>>) =>
        /\ pass.status = "failed"
        /\ pass.writes = 0

\* C12: with the feed version V above the watermark S and no failed query,
\* the change set get_changed_data returns is the one of the versions in
\* (S, V]: a write committed after V was read is in neither frame.
C12_VersionBoundedFetch ==
    (pc = "inc_load" /\ current_version > last_sync_version /\ ~pass.srcFault) =>
        LET atV == SubSeq(srcLog, 1, current_version)
        IN  /\ changed_df = UpsertQuery(atV, pass.tbl, last_sync_version)
            /\ deleted_df = DeleteQuery(atV, pass.tbl, last_sync_version)

\* the table names the configuration lists, in order: the non-blank entries
Listed ==
    SelectSeq([i \in 1..Len(TABLES_TO_REPLICATE) |-> strip(TABLES_TO_REPLICATE[i])],
              LAMBDA n : n # "")

\* replicate_all_tables has returned and main with it
Exited == exit_code # NoExit /\ connected

\* C13: when replicate_all_tables returns, the tables it attempted are the
\* non-blank configured tables, each once and in order, whatever the earlier
\* ones returned, and the result is true exactly when all of them returned
\* success.
C13_TableIndependence ==
    Exited =>
        /\ [i \in 1..Len(pass.done) |-> pass.done[i].tbl] = Listed
        /\ (exit_code = 0) <=> (\A i \in 1..Len(pass.done) : pass.done[i].ok)

\* C13 witness: the first table failed, the second was attempted after it
\* and returned success, and the run reports failure.
C13_Witness ==
    /\ Exited
    /\ Len(pass.done) = 2
    /\ ~pass.done[1].ok
    /\ pass.done[2].ok
    /\ exit_code = 1

\* the configuration names the source, the target and at least one table
ConfigValid ==
    /\ env.SQL_SERVER # "" /\ env.SQL_DATABASE # ""
    /\ env.BQ_PROJECT_ID # "" /\ env.BQ_DATASET # ""
    /\ Listed # <<>>

\* C14: with an invalid configuration main returns non-zero without a call
\* of connect().
C14_ValidationBeforeConnections ==
    (exit_code # NoExit /\ ~ConfigValid) => (exit_code = 1 /\ connects = 0)

\* C15: main returns 0 exactly when the configuration is valid, both
\* connections were established and every listed table was attempted and
\* returned success in this run.
C15_ExitContract ==
    exit_code # NoExit =>
        ((exit_code = 0) <=>
            /\ ConfigValid
            /\ connected
            /\ \A i \in 1..Len(Listed) :
                  \E j \in 1..Len(pass.done) :
                      pass.done[j].tbl = Listed[i] /\ pass.done[j].ok)

C17_CheckpointRoundTrip ==
    /\ \A t \in Tables :
          stateFile[t] = NoEntry =>
              get_last_sync_version(_load_state(stateFile, TRUE), t) = 0
    /\ (Returned /\ pass.writes = 1) =>
          get_last_sync_version(_load_state(stateFile, TRUE), pass.tbl) = pass.V

\* C18: a load_dataframe call with rows, whose job the warehouse did not
\* reject, returns success; after a WRITE_TRUNCATE load the table holds the
\* given rows and nothing else, after a WRITE_APPEND load the rows it held
\* before and the given rows.
C18_LoaderWriteModes ==
    (pass.tbl \in Tables /\ pass.loads = 1 /\ ~pass.tgtFault /\ pass.dels = 0) =>
        /\ ~pass.applyFailed
        /\ pass.path = "initial" =>
              tgtRows[pass.tbl] = [k \in Keys |-> IF k \in pass.upserts THEN 1 ELSE 0]
        /\ pass.path = "incremental" =>
              tgtRows[pass.tbl] =
                  [k \in Keys |-> pass.rowsBefore[k] + (IF k \in pass.upserts THEN 1 ELSE 0)]

\* C19: the clustering fields create_table sets are the first min(4, k)
\* primary-key columns in key ordinal order, none when there is no key.
C19_ClusteringFollowsKeyOrder ==
    scan.at \in {"created", "scanning", "done"} =>
        clustering_fields =
            SubSeq(catalog.pk_columns, 1, Min(4, Len(catalog.pk_columns)))

\* order of the rows by their key, first column first
KeyBefore(r, q) == r[1] < q[1] \/ (r[1] = q[1] /\ r[2] < q[2])

\* C20: the keyed scan of a table returns every row, each once, in ascending
\* key order, for every batch size.
C20_KeyedScanComplete ==
    scan.at = "done" =>
        /\ Range(scan.all_data) = scan.rows
        /\ Len(scan.all_data) = Cardinality(scan.rows)
        /\ \A i, j \in 1..Len(scan.all_data) :
              i < j => KeyBefore(scan.all_data[i], scan.all_data[j])

\* C21: an initial load of a table with primary key and N >= 1 rows, with no
\* failed query and no rejected job, scans in N div B + 1 batch queries, all
\* of B rows but the last, which has fewer (N = 3, B = 2: 2, 1); it returns
\* success and leaves as checkpoint the feed version read after the load.
C21_KeyedScanBatches ==
    (/\ Returned /\ pass.path = "initial" /\ PrimaryKey[pass.tbl] # <<>>
     /\ pass.batches # <<>> /\ ~pass.srcFault /\ ~pass.tgtFault) =>
        LET n == Len(pass.batches)
        IN  /\ n = (Cardinality(pass.upserts) \div BatchSize) + 1
            /\ \A i \in 1..(n - 1) : pass.batches[i] = BatchSize
            /\ pass.batches[n] < BatchSize
            /\ pass.status = "ok"
            /\ pass.writes = 1
            /\ state[pass.tbl] = SrcVersionOf(srcLog)


\* C22: every call get_changed_data(table, S) that reports no error (the
\* version it returns is not the failure value 0) returns a version that is
\* greater than or equal to S, the watermark it was called with.
C22_VersionAtLeastWatermark ==
    (/\ pc \in {"inc_changed", "inc_deleted", "inc_load", "inc_delete", "inc_update"}
     /\ current_version # 0) =>
        current_version >= last_sync_version


\* C23: when the change-tracking check of replicate_table fails (the table
\* exposes no change feed, or the catalog query finds no such table), the call
\* returns failure for that table at once: the step creates no target table,
\* loads and deletes no row, and leaves the checkpoint of every table as it
\* was, in the state document and in memory.
C23_UntrackedTableUntouched ==
    [][(pc = "check_ct" /\ (table_name \notin ChangeTracked \/ pc' = "loop")) =>
          /\ pc' \in {"loop", "stopped"}
          /\ tgtExists' = tgtExists
          /\ tgtRows' = tgtRows
          /\ stateFile' = stateFile
          /\ pc' = "loop" => /\ pass'.status = "failed"
                             /\ pass'.loads = 0 /\ pass'.dels = 0 /\ pass'.writes = 0
                             /\ ~success'
                             /\ state' = state]_vars

\* the untracked table has failed, the process went on to the next table and
\* that one was loaded
C23_Witness ==
    /\ Returned
    /\ pass.tbl = "orders"
    /\ pass.status = "ok"
    /\ pass.done = <<[tbl |-> "audit", ok |-> FALSE]>>
    /\ ~tgtExists["audit"]
    /\ tgtExists["orders"]
    /\ stateFile["audit"] = NoEntry


\* C24: a call update_sync_version(t, v) whose write of the state document
\* succeeds changes the entry of table t only: for every other table u the
\* version stored for u is the same after the call as before it, in memory
\* and in the rewritten document, also in a process that started from a state
\* file it could not read.
C24_CheckpointIndependence ==
    [][(WritesCheckpoint /\ pass'.writes = pass.writes + 1 /\ ~pass'.saveFault) =>
          \A u \in Tables \ {table_name} :
              /\ state'[u] = state[u]
              /\ stateFile'[u] = stateFile[u]]_vars


\* C25: load_dataframe called with an empty row set and delete_rows called
\* with an empty key set each return success, submit no load job and no
\* delete statement, and leave the rows of the target table as they were.
C25_EmptyInputNoOp ==
    \A op \in DOMAIN call :
        (call[op].made /\ call[op].frame = {}) =>
            /\ call[op].ok
            /\ ~call[op].job
            /\ call[op].after = call[op].before

\* both operations were called with empty input on a table that holds rows
C25_Witness ==
    /\ \A op \in DOMAIN call :
          /\ call[op].made
          /\ call[op].frame = {}
          /\ call[op].ok
          /\ KeysOf(call[op].before) # {}
    /\ KeysOf(tgtRows["orders"]) # {}


\* C26: for a table with a primary key, after a successful initial load
\* followed by successful incremental passes only, with no failed call and no
\* restore anywhere, and no write to the source after the last pass read the
\* feed version, the set of primary keys in the target equals the set of
\* primary keys in the source.
C26_KeySetConvergence ==
    (/\ Returned /\ pass.status = "ok" /\ pass.path = "incremental"
     /\ PrimaryKey[pass.tbl] # <<>>
     /\ pass.replayOf.chain
     /\ faults = 0
     /\ pass.V = SrcVersionOf(srcLog)) =>
        KeysOf(tgtRows[pass.tbl]) = SrcRows(srcLog, pass.tbl)

====
